---- MODULE Spec2Model ----
(***************************************************************************)
(* Client Session Mirror of sonobarr: src/src/static/script.js.            *)
(*                                                                         *)
(* The state is the script's global variables and the parts of the DOM its *)
(* handlers read or write.  Each action is one handler, run to completion  *)
(* (JavaScript runs one handler at a time): a user gesture (Click...,      *)
(* Submit..., Toggle...), a socket event delivered by the server, or a     *)
(* timer.  A user gesture is possible only on a control the browser lets   *)
(* the user operate: a disabled control dispatches no click, and a control *)
(* hidden with d-none cannot be clicked.  Server events are delivered only *)
(* while the socket is connected, in any order and with any payload of the *)
(* input sets below: the server is not part of src/.                       *)
(*                                                                         *)
(* The page template is not part of src/ either.  The controls start as    *)
(* the handlers leave them when idle: load-more hidden, the start/stop     *)
(* control labelled START_LABEL, no seed checkbox, no card.                *)
(*                                                                         *)
(* Texts, titles, hints and CSS classes that no handler reads back are     *)
(* left out; the add button's text is kept because it shows the status.    *)
(*                                                                         *)
(* History variables (sent, toast, last, lmOutstanding, awaitingInitial,   *)
(* actionOutstanding, previewCount, sampleCount, terminalSeen,             *)
(* recsOutstanding, subject, received, attempt, lastControl,               *)
(* aiOutstanding, searchOwed and the clicks, status and updated fields of  *)
(* a card) record what the client emitted and showed; no handler reads     *)
(* them.                                                                   *)
(* observer is a second client with the same role, connection and server   *)
(* events whose user never clicks.                                         *)
(*                                                                         *)
(* The server (Session Orchestrator and Broadcast Hub) is not part of      *)
(* src/: the variable server and its operations follow spec.md sections 3, *)
(* 4.1, 4.2, 5 and 7.                                                      *)
(***************************************************************************)
EXTENDS Integers, Sequences, FiniteSets, TLC

\* ------------------------------------------------------------------ bounds
MaxCards == 2
MaxBatch == 2
MaxOutstanding == 2
MaxSeeds == 2
MaxTimers == 2
MaxQueue == 1

\* ------------------------------------------------------------- value sets
NULL == "null"
START_LABEL == "Start discovery"
STOP_LABEL == "Stop"
Sources == {"lastfm", "listenbrainz"}
Names == {"Abba", "AC DC"}
Statuses ==
  {"", "Added", "Already in Lidarr", "Requested", "Failed to Add",
   "Invalid Path", "Rejected"}
TerminalStatuses == {"Added", "Already in Lidarr", "Rejected", "Invalid Path"}
DefaultText == "Add to Lidarr"
\* personalSourcesState = null: no snapshot is held.
NoSnapshot == [s \in Sources |-> NULL]

VARIABLES
  connected,              \* socket.connected
  is_admin,
  personalSourcesState,   \* NoSnapshot or [Sources -> {"absent","enabled","disabled"}]
  personalDiscoveryState, \* [inFlight, source]
  personalSpinner,        \* [Sources -> BOOLEAN]: spinner shown (no d-none)
  personalButtonDisabled, \* [Sources -> BOOLEAN]
  initialLoadComplete,
  initialLoadHasMore,
  loadMorePending,
  load_more_button,       \* [hidden, disabled]
  header_spinner,         \* TRUE when shown
  cards,                  \* #artist-row: the cards in document order, each
                          \* [name, handler, text, disabled, loading, led]
                          \* and the history fields clicks (commands since
                          \* the last status), status (the status the
                          \* server last reported for the card) and
                          \* updated (a refresh_artist was applied)
  start_stop_button,      \* its textContent
  checkboxes,             \* input[name="lidarr-item"]: [value, checked, disabled]
  lidarr_select_all,      \* [checked, disabled]
  lidarr_get_artists_disabled,
  preview_request_flag,
  previewTimers,          \* pending setTimeout callbacks, each with its target
  aiForm,                 \* [loading, error, results]
  simple_search_loading,  \* the search button and input are disabled
  sent,                   \* history: commands emitted by the last handler
  toast,                  \* history: header of the toast it showed, or NULL
  last,                   \* history: the handler that ran last
  lmOutstanding,          \* history: load_more_artists not yet answered
  awaitingInitial,        \* history: no initial_load_complete since start/clear
  actionOutstanding,      \* history: adder/request_artist per identity
  previewCount,           \* history: preview_req per target in its window
  sampleCount,            \* history: prehear_req per target in its window
  terminalSeen,           \* history: identities shown terminal since the
                          \*          list was last empty
  recsOutstanding,        \* history: user_recs_req not yet answered
  received,               \* history: the identities of the batches processed
                          \*          since the list was last cleared, in order
  subject,                \* history: the identity the last status update
                          \*          named, or NULL
  attempt,                \* history: the list and the pagination flags as
                          \*          they were when the handler before this
                          \*          one sent ai_prompt_req or user_recs_req
  lastControl,            \* history: the command of the last start/stop
                          \*          click since load_lidarr_data last ran,
                          \*          or NULL
  aiOutstanding,          \* history: an ai_prompt_req was emitted and
                          \*          neither ai_prompt_ack nor
                          \*          ai_prompt_error has been processed since
  searchOwed,             \* history: "sent" after mb_artist_search until
                          \*          its answer is processed, "lost" when
                          \*          the socket went first, else "none"
  observer,               \* the mirror of a client that never clicks:
                          \* [cards, initialLoadComplete, initialLoadHasMore,
                          \*  loadMorePending]
  server                  \* [state, resultBuffer, pagination, outbox,
                          \*  requester]

vars ==
  <<connected, is_admin, personalSourcesState, personalDiscoveryState,
    personalSpinner, personalButtonDisabled, initialLoadComplete,
    initialLoadHasMore, loadMorePending, load_more_button, header_spinner,
    cards, start_stop_button, checkboxes, lidarr_select_all,
    lidarr_get_artists_disabled, preview_request_flag, previewTimers, aiForm,
    sent, toast, last, lmOutstanding, awaitingInitial, actionOutstanding,
    previewCount, sampleCount, terminalSeen, recsOutstanding, subject,
    received, attempt, lastControl, aiOutstanding, simple_search_loading,
    searchOwed, observer, server>>

personalVars ==
  <<personalSourcesState, personalDiscoveryState, personalSpinner,
    personalButtonDisabled>>
pageVars ==
  <<initialLoadComplete, initialLoadHasMore, loadMorePending,
    load_more_button>>
seedVars ==
  <<start_stop_button, checkboxes, lidarr_select_all,
    lidarr_get_artists_disabled>>
previewVars == <<preview_request_flag, previewTimers, previewCount>>

\* A command handed to socket.emit: its event name and its argument, a
\* sequence (empty when the command carries none).
Cmd(c, a) == [cmd |-> c, arg |-> a]

\* ------------------------------------------------------------ pure helpers

\* encodeURIComponent on the names of the model: a space becomes %20.
encodeURIComponent(s) ==
  CASE s = "AC DC" -> "AC%20DC"
    [] OTHER -> s

\* String.prototype.trim on the names of the model (none has outer blanks).
trim(s) == s

\* Variant: a discovery in flight does not disable the buttons.
updatePersonalButtons_ignoresBusy(pss, pds) ==
  [s \in Sources |->
     IF pss = NoSnapshot \/ pss[s] = "absent"
       THEN TRUE
       ELSE pss[s] # "enabled"]

\* updatePersonalButtons: the disabled property of each personal button.
updatePersonalButtons(pss, pds) ==
  [s \in Sources |->
     IF pss = NoSnapshot \/ pss[s] = "absent"
       THEN TRUE
       ELSE pss[s] # "enabled" \/ pds.inFlight]

\* setPersonalDiscoveryLoading: the new personalDiscoveryState.
setLoadingState(source, isLoading) ==
  [inFlight |-> isLoading, source |-> IF isLoading THEN source ELSE NULL]

\* Variant: the spinner of the source that was active is left shown when
\* the discovery ends.
setLoadingSpinners_leavesSpinner(previous, source, isLoading) ==
  LET activeSource == IF isLoading THEN source ELSE previous.source
  IN  [s \in Sources |-> activeSource = s]

\* setPersonalDiscoveryLoading: which spinners are shown afterwards.
setLoadingSpinners(previous, source, isLoading) ==
  LET activeSource == IF isLoading THEN source ELSE previous.source
  IN  [s \in Sources |-> isLoading /\ activeSource = s]

\* setPersonalDiscoveryLoading(source, isLoading), with the snapshot pss that
\* updatePersonalButtons reads at the end.
setPersonalDiscoveryLoading(source, isLoading, pss) ==
  /\ personalDiscoveryState' = setLoadingState(source, isLoading)
  /\ personalSpinner' =
       setLoadingSpinners(personalDiscoveryState, source, isLoading)
  /\ personalButtonDisabled' =
       updatePersonalButtons(pss, setLoadingState(source, isLoading))

remove_load_more_button == [hidden |-> TRUE, disabled |-> FALSE]

\* Variant: the control is shown without looking at the two flags.
create_load_more_button_unguarded(ilc, hasMore, pending) ==
  [hidden |-> FALSE, disabled |-> pending]

create_load_more_button(ilc, hasMore, pending) ==
  IF ~ilc \/ ~hasMore
    THEN [hidden |-> TRUE, disabled |-> FALSE]
    ELSE [hidden |-> FALSE, disabled |-> pending]

\* One card of append_artists: the add button's handler is chosen by is_admin
\* at creation, then the status mapping sets button and status dot.
NewCard(artist, admin) ==
  LET base ==
        [name |-> artist.Name,
         handler |-> IF admin THEN "adder" ELSE "request_artist",
         text |-> IF admin THEN DefaultText ELSE "Request",
         disabled |-> FALSE,
         loading |-> FALSE,
         led |-> "info",
         clicks |-> 0,
         status |-> artist.Status,
         updated |-> FALSE]
  IN  CASE artist.Status \in {"Added", "Already in Lidarr"} ->
             [base EXCEPT !.led = "success", !.disabled = TRUE,
                          !.text = artist.Status]
        [] artist.Status = "Requested" ->
             [base EXCEPT !.led = "warning", !.disabled = TRUE,
                          !.text = "Pending Approval"]
        [] artist.Status \in {"Failed to Add", "Invalid Path", "Rejected"} ->
             [base EXCEPT !.led = "danger", !.disabled = TRUE,
                          !.text = artist.Status]
        [] OTHER -> base

\* Variant: the new cards are put in front of the row.
appendCards_prepends(cs, artists, admin) ==
  [i \in 1..Len(artists) |-> NewCard(artists[i], admin)] \o cs

\* append_artists: the cards appended to #artist-row, in the batch's order.
appendCards(cs, artists, admin) ==
  cs \o [i \in 1..Len(artists) |-> NewCard(artists[i], admin)]

\* Variant: after the loop the control is shown enabled, whatever
\* loadMorePending says.
appendButton_reenables(ilc, hasMore, pending) ==
  IF ~ilc THEN remove_load_more_button
          ELSE create_load_more_button(ilc, hasMore, FALSE)

\* append_artists: the load-more control, before and after the loop.
appendButton(ilc, hasMore, pending) ==
  IF ~ilc THEN remove_load_more_button
          ELSE create_load_more_button(ilc, hasMore, pending)

\* Variant: loadMorePending and the control survive the clear.
clear_all_keepsPending ==
  /\ cards' = <<>>
  /\ received' = <<>>
  /\ initialLoadComplete' = FALSE
  /\ initialLoadHasMore' = FALSE
  /\ UNCHANGED <<loadMorePending, load_more_button>>

\* clear_all: every card removed, load-more hidden, the three flags reset.
clear_all ==
  /\ cards' = <<>>
  /\ received' = <<>>
  /\ load_more_button' = remove_load_more_button
  /\ initialLoadComplete' = FALSE
  /\ initialLoadHasMore' = FALSE
  /\ loadMorePending' = FALSE

\* ------------------------------------------- the server, after spec.md
\* The connections of the Broadcast Hub.
Conns == {"c1", "c2"}
SeedOrigins == {"Catalogue", "PersonalSource", "Prompt"}

\* An event of the vocabulary of section 6: its name and its payload, a
\* sequence of strings.
Event(t, a) == [type |-> t, arg |-> a]

\* The bounded output queue of one connection, drop-oldest on overflow.
push(q, e) ==
  IF Len(q) < MaxQueue THEN Append(q, e) ELSE Append(Tail(q), e)

\* publish(event): delivered to every subscribed connection.
publish(box, e) == [c \in Conns |-> push(box[c], e)]

\* An event scoped to the originating connection only.
report(box, c, e) == [box EXCEPT ![c] = push(box[c], e)]

NoPagination ==
  [initialLoadComplete |-> FALSE, hasMore |-> FALSE, loadMorePending |-> FALSE]

ServerInit ==
  [state |-> "Idle",
   resultBuffer |-> <<>>,
   pagination |-> NoPagination,
   outbox |-> [c \in Conns |-> <<>>],
   requester |-> NULL]

\* The observer's mirror as the script starts it.  attached: a second client
\* is being followed.
ObserverInit ==
  [attached |-> FALSE, cards |-> <<>>, initialLoadComplete |-> FALSE,
   initialLoadHasMore |-> FALSE, loadMorePending |-> FALSE]
Observing == [ObserverInit EXCEPT !.attached = TRUE]

\* The observer's next mirror, when one is followed.
observe(o, next) == IF o.attached THEN next ELSE o

\* No start attempt is on record.
NoAttempt ==
  [made |-> FALSE, cards |-> <<>>, initialLoadComplete |-> FALSE,
   initialLoadHasMore |-> FALSE, loadMorePending |-> FALSE]

\* ------------------------------------------------------------------- Init
InitMirror ==
  /\ connected = FALSE
  /\ is_admin = FALSE
  /\ personalSourcesState = NoSnapshot
  /\ personalDiscoveryState = [inFlight |-> FALSE, source |-> NULL]
  /\ personalSpinner = [s \in Sources |-> FALSE]
  /\ personalButtonDisabled =
       updatePersonalButtons(NoSnapshot,
                             [inFlight |-> FALSE, source |-> NULL])
  /\ initialLoadComplete = FALSE
  /\ initialLoadHasMore = FALSE
  /\ loadMorePending = FALSE
  /\ load_more_button = [hidden |-> TRUE, disabled |-> FALSE]
  /\ header_spinner = FALSE
  /\ cards = <<>>
  /\ start_stop_button = START_LABEL
  /\ checkboxes = <<>>
  /\ lidarr_select_all = [checked |-> FALSE, disabled |-> FALSE]
  /\ lidarr_get_artists_disabled = FALSE
  /\ preview_request_flag = FALSE
  /\ previewTimers = <<>>
  /\ aiForm = [loading |-> FALSE, error |-> FALSE, results |-> FALSE]
  /\ sent = <<>>
  /\ toast = NULL
  /\ last = "init"
  /\ lmOutstanding = 0
  /\ awaitingInitial = TRUE
  /\ actionOutstanding = [n \in Names |-> 0]
  /\ previewCount = [n \in Names |-> 0]
  /\ sampleCount = [n \in Names |-> 0]
  /\ terminalSeen = {}
  /\ recsOutstanding = 0
  /\ subject = NULL
  /\ received = <<>>
  /\ attempt = NoAttempt
  /\ lastControl = NULL
  /\ aiOutstanding = FALSE
  /\ simple_search_loading = FALSE
  /\ searchOwed = "none"
  /\ server = ServerInit

\* The script alone.
Init ==
  /\ InitMirror
  /\ observer = ObserverInit

\* The script, and a second client that is followed from the start.
InitSync ==
  /\ InitMirror
  /\ observer = Observing

\* --------------------------------------------------------- input sets
\* An artist of a batch or of a status update.
Artists == [Name : Names, Status : Statuses]
\* Artists as the server first reports them, with no status yet.
NewArtists == [Name : Names, Status : {""}]

SeqsUpTo(S, n) == UNION {[1..k -> S] : k \in 1..n}

\* A personal_sources_state payload: per source, whether it is listed and
\* enabled.
Snapshots == [Sources -> {"absent", "enabled", "disabled"}]

Quiet == /\ sent' = <<>>
         /\ toast' = NULL

\* The identities whose card shows a terminal status.
TerminalShown(cs) ==
  {cs[i].name : i \in {j \in 1..Len(cs) : cs[j].text \in TerminalStatuses}}

\* The histories, kept the same way by every handler: the terminal statuses
\* shown since the list was last empty, and the mirror as it was before an
\* ai_prompt_req or user_recs_req, kept until the handler after the error
\* that answers it, the command of the last start/stop click, and whether
\* an ai_prompt_req waits for its answer (a lost socket answers nothing),
\* and what became of the last mb_artist_search.
History ==
  /\ terminalSeen' =
       IF cards' = <<>> THEN {} ELSE terminalSeen \cup TerminalShown(cards')
  /\ attempt' =
       IF /\ last' \in {"submit_ai_prompt", "click_personal"}
          /\ sent' # <<>>
          /\ sent'[1].cmd \in {"ai_prompt_req", "user_recs_req"}
         THEN [made |-> TRUE, cards |-> cards,
               initialLoadComplete |-> initialLoadComplete,
               initialLoadHasMore |-> initialLoadHasMore,
               loadMorePending |-> loadMorePending]
         ELSE IF last' \in {"ai_prompt_error", "user_recs_error"}
           THEN attempt
           ELSE NoAttempt
  /\ lastControl' =
       IF last' = "click_start_stop" THEN sent'[1].cmd
       ELSE IF last' = "lidarr_sidebar_update" THEN NULL
       ELSE lastControl
  /\ aiOutstanding' =
       IF last' = "submit_ai_prompt" /\ sent' # <<>> THEN TRUE
       ELSE IF last' \in {"ai_prompt_ack", "ai_prompt_error", "disconnect"}
         THEN FALSE
         ELSE aiOutstanding
  /\ searchOwed' =
       IF last' = "trigger_simple_search" /\ sent' # <<>> THEN "sent"
       ELSE IF last' \in {"simple_search_ack", "simple_search_error"}
         THEN "none"
         ELSE IF last' = "disconnect" /\ searchOwed = "sent" THEN "lost"
           ELSE searchOwed

\* ------------------------------------------------------------ connection

\* socket.on('connect')
Connect ==
  /\ ~connected
  /\ connected' = TRUE
  /\ sent' = <<Cmd("personal_sources_poll", <<>>)>>
  /\ toast' = NULL
  /\ last' = "connect"
  /\ UNCHANGED <<is_admin, personalVars, pageVars, header_spinner, cards, received,
                 seedVars, previewVars, aiForm, lmOutstanding,
                 awaitingInitial, actionOutstanding, sampleCount>>
  /\ UNCHANGED <<recsOutstanding, observer, server>>
  /\ subject' = NULL
  /\ UNCHANGED simple_search_loading
  /\ History

\* socket.on('disconnect').  The socket is gone, and with it the answer to a
\* load-more request that was outstanding.
Disconnect ==
  /\ connected
  /\ connected' = FALSE
  /\ toast' = "Connection Lost"
  /\ header_spinner' = FALSE
  /\ personalSourcesState' = NoSnapshot
  /\ setPersonalDiscoveryLoading(NULL, FALSE, NoSnapshot)
  /\ clear_all
  /\ sent' = <<>>
  /\ last' = "disconnect"
  /\ lmOutstanding' = 0
  /\ awaitingInitial' = TRUE
  /\ UNCHANGED <<is_admin, seedVars, previewVars, aiForm, actionOutstanding,
                 sampleCount>>
  /\ observer' = observe(observer, Observing)
  /\ recsOutstanding' = 0
  /\ UNCHANGED server
  /\ subject' = NULL
  /\ UNCHANGED simple_search_loading
  /\ History

\* socket.on('user_info')
UserInfo(admin) ==
  /\ connected
  /\ is_admin' = admin
  /\ Quiet
  /\ last' = "user_info"
  /\ UNCHANGED <<connected, personalVars, pageVars, header_spinner, cards, received,
                 seedVars, previewVars, aiForm, lmOutstanding,
                 awaitingInitial, actionOutstanding, sampleCount>>
  /\ UNCHANGED <<recsOutstanding, observer, server>>
  /\ subject' = NULL
  /\ UNCHANGED simple_search_loading
  /\ History

\* ------------------------------------------------------------ pagination

\* load_more_button click handler
ClickLoadMore ==
  /\ ~load_more_button.hidden
  /\ ~load_more_button.disabled
  /\ lmOutstanding < MaxOutstanding
  /\ last' = "click_load_more"
  /\ toast' = NULL
  /\ IF loadMorePending \/ load_more_button.disabled
       THEN /\ sent' = <<>>
            /\ UNCHANGED <<loadMorePending, load_more_button, header_spinner,
                           lmOutstanding>>
       ELSE /\ loadMorePending' = TRUE
            /\ load_more_button' = [load_more_button EXCEPT !.disabled = TRUE]
            /\ header_spinner' = TRUE
            /\ sent' = <<Cmd("load_more_artists", <<>>)>>
            /\ lmOutstanding' = lmOutstanding + 1
  /\ UNCHANGED <<connected, is_admin, personalVars, initialLoadComplete,
                 initialLoadHasMore, cards, received, seedVars, previewVars, aiForm,
                 awaitingInitial, actionOutstanding, sampleCount>>
  /\ UNCHANGED <<recsOutstanding, observer, server>>
  /\ subject' = NULL
  /\ UNCHANGED simple_search_loading
  /\ History

\* socket.on('initial_load_complete')
InitialLoadComplete(hasMore) ==
  /\ connected
  /\ initialLoadComplete' = TRUE
  /\ initialLoadHasMore' = hasMore
  /\ loadMorePending' = FALSE
  /\ IF personalDiscoveryState.inFlight
       THEN /\ setPersonalDiscoveryLoading(NULL, FALSE, personalSourcesState)
            /\ UNCHANGED personalSourcesState
       ELSE UNCHANGED personalVars
  /\ header_spinner' = FALSE
  /\ load_more_button' =
       IF hasMore THEN create_load_more_button(TRUE, hasMore, FALSE)
                  ELSE remove_load_more_button
  /\ Quiet
  /\ last' = "initial_load_complete"
  /\ awaitingInitial' = FALSE
  /\ UNCHANGED <<connected, is_admin, cards, received, seedVars, previewVars, aiForm,
                 lmOutstanding, actionOutstanding, sampleCount>>
  /\ observer' =
       observe(observer,
               [observer EXCEPT !.initialLoadComplete = TRUE,
                                !.initialLoadHasMore = hasMore,
                                !.loadMorePending = FALSE])
  /\ recsOutstanding' = 0
  /\ UNCHANGED server
  /\ subject' = NULL
  /\ UNCHANGED simple_search_loading
  /\ History

\* socket.on('load_more_complete').  answers: the event answers a request of
\* this client; otherwise it was broadcast for a request of another client.
LoadMoreComplete(hasMore, answers) ==
  /\ connected
  /\ answers => lmOutstanding > 0
  /\ loadMorePending' = FALSE
  /\ initialLoadHasMore' = hasMore
  /\ header_spinner' = FALSE
  /\ load_more_button' =
       IF hasMore
         THEN create_load_more_button(initialLoadComplete, hasMore, FALSE)
         ELSE remove_load_more_button
  /\ Quiet
  /\ last' = "load_more_complete"
  /\ lmOutstanding' = IF answers THEN lmOutstanding - 1 ELSE lmOutstanding
  /\ UNCHANGED <<connected, is_admin, personalVars, initialLoadComplete,
                 cards, received, seedVars, previewVars, aiForm, awaitingInitial,
                 actionOutstanding, sampleCount>>
  /\ observer' =
       observe(observer,
               [observer EXCEPT !.loadMorePending = FALSE,
                                !.initialLoadHasMore = hasMore])
  /\ UNCHANGED <<recsOutstanding, server>>
  /\ subject' = NULL
  /\ UNCHANGED simple_search_loading
  /\ History

\* socket.on('clear')
Clear ==
  /\ connected
  /\ clear_all
  /\ Quiet
  /\ last' = "clear"
  /\ awaitingInitial' = TRUE
  /\ UNCHANGED <<connected, is_admin, personalVars, header_spinner, seedVars,
                 previewVars, aiForm, lmOutstanding, actionOutstanding,
                 sampleCount>>
  /\ observer' = observe(observer, Observing)
  /\ UNCHANGED <<recsOutstanding, server>>
  /\ subject' = NULL
  /\ UNCHANGED simple_search_loading
  /\ History

\* socket.on('more_artists_loaded'): append_artists(data)
MoreArtistsLoaded(data) ==
  /\ connected
  /\ Len(cards) + Len(data) <= MaxCards
  /\ cards' = appendCards(cards, data, is_admin)
  /\ load_more_button' =
       appendButton(initialLoadComplete, initialLoadHasMore,
                    loadMorePending)
  /\ Quiet
  /\ last' = "more_artists_loaded"
  /\ UNCHANGED <<connected, is_admin, personalVars, initialLoadComplete,
                 initialLoadHasMore, loadMorePending, header_spinner,
                 seedVars, previewVars, aiForm, lmOutstanding,
                 awaitingInitial, actionOutstanding, sampleCount>>
  /\ observer' =
       observe(observer,
               [observer EXCEPT !.cards = appendCards(@, data, is_admin)])
  /\ UNCHANGED <<recsOutstanding, server>>
  /\ received' = received \o [i \in 1..Len(data) |-> data[i].Name]
  /\ subject' = NULL
  /\ UNCHANGED simple_search_loading
  /\ History

\* --------------------------------------------- running indicator, seeds

\* check_if_all_selected: true of an empty list too.
check_if_all_selected(boxes) ==
  \A i \in 1..Len(boxes) : boxes[i].checked

setDisabled(boxes, d) ==
  [i \in 1..Len(boxes) |-> [boxes[i] EXCEPT !.disabled = d]]

\* The values of input[name="lidarr-item"]:checked, in document order.
RECURSIVE checked_items(_)
checked_items(boxes) ==
  IF boxes = <<>> THEN <<>>
  ELSE (IF Head(boxes).checked THEN <<Head(boxes).value>> ELSE <<>>)
         \o checked_items(Tail(boxes))

\* Variant: the checkboxes are left as they were built.
load_lidarr_data_newBoxesEnabled(running, boxes) ==
  /\ start_stop_button' = IF running THEN STOP_LABEL ELSE START_LABEL
  /\ checkboxes' = boxes
  /\ lidarr_get_artists_disabled' = running
  /\ lidarr_select_all' =
       [checked |-> check_if_all_selected(boxes), disabled |-> running]

\* load_lidarr_data(response), on the checkboxes present when it is called.
load_lidarr_data(running, boxes) ==
  /\ start_stop_button' = IF running THEN STOP_LABEL ELSE START_LABEL
  /\ checkboxes' = setDisabled(boxes, running)
  /\ lidarr_get_artists_disabled' = running
  /\ lidarr_select_all' =
       [checked |-> check_if_all_selected(boxes), disabled |-> running]

\* Variant: the start branch leaves the label of the control alone.
ClickStartStop_keepsLabel ==
  /\ last' = "click_start_stop"
  /\ toast' = NULL
  /\ IF start_stop_button = START_LABEL
       THEN /\ initialLoadComplete' = FALSE
            /\ initialLoadHasMore' = FALSE
            /\ loadMorePending' = FALSE
            /\ header_spinner' = TRUE
            /\ load_more_button' = remove_load_more_button
            /\ start_stop_button' = start_stop_button
            /\ checkboxes' = setDisabled(checkboxes, TRUE)
            /\ lidarr_get_artists_disabled' = TRUE
            /\ lidarr_select_all' = [lidarr_select_all EXCEPT !.disabled = TRUE]
            /\ sent' = <<Cmd("start_req", checked_items(checkboxes))>>
            /\ awaitingInitial' = TRUE
       ELSE /\ header_spinner' = FALSE
            /\ start_stop_button' = START_LABEL
            /\ checkboxes' = setDisabled(checkboxes, FALSE)
            /\ lidarr_get_artists_disabled' = FALSE
            /\ lidarr_select_all' = [lidarr_select_all EXCEPT !.disabled = FALSE]
            /\ sent' = <<Cmd("stop_req", <<>>)>>
            /\ UNCHANGED <<pageVars, awaitingInitial>>
  /\ UNCHANGED <<connected, is_admin, personalVars, cards, received, previewVars,
                 aiForm, lmOutstanding, actionOutstanding, sampleCount>>
  /\ UNCHANGED <<recsOutstanding, observer, server>>
  /\ subject' = NULL
  /\ UNCHANGED simple_search_loading
  /\ History

\* start_stop_button click handler
ClickStartStop ==
  /\ last' = "click_start_stop"
  /\ toast' = NULL
  /\ IF start_stop_button = START_LABEL
       THEN /\ initialLoadComplete' = FALSE
            /\ initialLoadHasMore' = FALSE
            /\ loadMorePending' = FALSE
            /\ header_spinner' = TRUE
            /\ load_more_button' = remove_load_more_button
            /\ start_stop_button' = STOP_LABEL
            /\ checkboxes' = setDisabled(checkboxes, TRUE)
            /\ lidarr_get_artists_disabled' = TRUE
            /\ lidarr_select_all' = [lidarr_select_all EXCEPT !.disabled = TRUE]
            /\ sent' = <<Cmd("start_req", checked_items(checkboxes))>>
            /\ awaitingInitial' = TRUE
       ELSE /\ header_spinner' = FALSE
            /\ start_stop_button' = START_LABEL
            /\ checkboxes' = setDisabled(checkboxes, FALSE)
            /\ lidarr_get_artists_disabled' = FALSE
            /\ lidarr_select_all' = [lidarr_select_all EXCEPT !.disabled = FALSE]
            /\ sent' = <<Cmd("stop_req", <<>>)>>
            /\ UNCHANGED <<pageVars, awaitingInitial>>
  /\ UNCHANGED <<connected, is_admin, personalVars, cards, received, previewVars,
                 aiForm, lmOutstanding, actionOutstanding, sampleCount>>
  /\ UNCHANGED <<recsOutstanding, observer, server>>
  /\ subject' = NULL
  /\ UNCHANGED simple_search_loading
  /\ History

\* lidarr_get_artists_button click handler
ClickGetArtists ==
  /\ ~lidarr_get_artists_disabled
  /\ lidarr_get_artists_disabled' = TRUE
  /\ checkboxes' = <<>>
  /\ sent' = <<Cmd("get_lidarr_artists", <<>>)>>
  /\ toast' = NULL
  /\ last' = "click_get_artists"
  /\ UNCHANGED <<connected, is_admin, personalVars, pageVars, header_spinner,
                 cards, received, start_stop_button, lidarr_select_all, previewVars,
                 aiForm, lmOutstanding, awaitingInitial, actionOutstanding,
                 sampleCount>>
  /\ UNCHANGED <<recsOutstanding, observer, server>>
  /\ subject' = NULL
  /\ UNCHANGED simple_search_loading
  /\ History

\* A seed checkbox toggled by the user: its change handler runs
\* check_if_all_selected.
ToggleSeed(i) ==
  /\ i \in 1..Len(checkboxes)
  /\ ~checkboxes[i].disabled
  /\ checkboxes' = [checkboxes EXCEPT ![i].checked = ~checkboxes[i].checked]
  /\ lidarr_select_all' =
       [lidarr_select_all EXCEPT !.checked = check_if_all_selected(checkboxes')]
  /\ Quiet
  /\ last' = "toggle_seed"
  /\ UNCHANGED <<connected, is_admin, personalVars, pageVars, header_spinner,
                 cards, received, start_stop_button, lidarr_get_artists_disabled,
                 previewVars, aiForm, lmOutstanding, awaitingInitial,
                 actionOutstanding, sampleCount>>
  /\ UNCHANGED <<recsOutstanding, observer, server>>
  /\ subject' = NULL
  /\ UNCHANGED simple_search_loading
  /\ History

\* lidarr_select_all_checkbox change handler
ToggleSelectAll ==
  /\ ~lidarr_select_all.disabled
  /\ lidarr_select_all' =
       [lidarr_select_all EXCEPT !.checked = ~lidarr_select_all.checked]
  /\ checkboxes' =
       [i \in 1..Len(checkboxes) |->
          [checkboxes[i] EXCEPT !.checked = ~lidarr_select_all.checked]]
  /\ Quiet
  /\ last' = "toggle_select_all"
  /\ UNCHANGED <<connected, is_admin, personalVars, pageVars, header_spinner,
                 cards, received, start_stop_button, lidarr_get_artists_disabled,
                 previewVars, aiForm, lmOutstanding, awaitingInitial,
                 actionOutstanding, sampleCount>>
  /\ UNCHANGED <<recsOutstanding, observer, server>>
  /\ subject' = NULL
  /\ UNCHANGED simple_search_loading
  /\ History

\* A lidarr_sidebar_update payload: Status, Data (items with name and
\* checked) and Running.
SeedItems == [name : Names, checked : BOOLEAN]
SidebarResponses ==
  [Status : {"Success", "Error"},
   Data : {<<>>} \cup SeqsUpTo(SeedItems, MaxSeeds),
   Running : BOOLEAN]

\* The checkboxes lidarr_sidebar_update builds from response.Data.
newCheckboxes(data) ==
  [i \in 1..Len(data) |->
     [value |-> data[i].name, checked |-> data[i].checked,
      disabled |-> FALSE]]

\* socket.on('lidarr_sidebar_update')
LidarrSidebarUpdate(response) ==
  /\ connected
  /\ load_lidarr_data(response.Running,
                      IF response.Status = "Success"
                        THEN newCheckboxes(response.Data)
                        ELSE checkboxes)
  /\ header_spinner' = IF response.Running THEN header_spinner ELSE FALSE
  /\ Quiet
  /\ last' = "lidarr_sidebar_update"
  /\ UNCHANGED <<connected, is_admin, personalVars, pageVars, cards, received,
                 previewVars, aiForm, lmOutstanding, awaitingInitial,
                 actionOutstanding, sampleCount>>
  /\ UNCHANGED <<recsOutstanding, observer, server>>
  /\ subject' = NULL
  /\ UNCHANGED simple_search_loading
  /\ History

\* lidarr_sidebar show.bs.offcanvas handler
SidebarOpened ==
  /\ sent' = <<Cmd("side_bar_opened", <<>>), Cmd("personal_sources_poll", <<>>)>>
  /\ toast' = NULL
  /\ last' = "sidebar_opened"
  /\ UNCHANGED <<connected, is_admin, personalVars, pageVars, header_spinner,
                 cards, received, seedVars, previewVars, aiForm, lmOutstanding,
                 awaitingInitial, actionOutstanding, sampleCount>>
  /\ UNCHANGED <<recsOutstanding, observer, server>>
  /\ subject' = NULL
  /\ UNCHANGED simple_search_loading
  /\ History

\* -------------------------------------------- AI prompt, personal sources

\* begin_ai_discovery_flow: clear_all, then the header spinner is shown.
begin_ai_discovery_flow ==
  /\ clear_all
  /\ header_spinner' = TRUE

\* Variant: the list is cleared before the prompt is looked at.
SubmitAiPrompt_clearsFirst(prompt) ==
  /\ ~aiForm.loading
  /\ last' = "submit_ai_prompt"
  /\ IF ~connected
       THEN /\ toast' = "Connection Lost"
            /\ sent' = <<>>
            /\ UNCHANGED <<aiForm, pageVars, cards, received, header_spinner,
                           awaitingInitial>>
       ELSE IF prompt = ""
         THEN /\ aiForm' = [aiForm EXCEPT !.error = TRUE]
              /\ begin_ai_discovery_flow
              /\ Quiet
              /\ awaitingInitial' = TRUE
         ELSE /\ aiForm' = [loading |-> TRUE, error |-> FALSE,
                            results |-> FALSE]
              /\ begin_ai_discovery_flow
              /\ sent' = <<Cmd("ai_prompt_req", <<prompt>>)>>
              /\ toast' = NULL
              /\ awaitingInitial' = TRUE
  /\ UNCHANGED <<connected, is_admin, personalVars, seedVars, previewVars,
                 lmOutstanding, actionOutstanding, sampleCount>>
  /\ UNCHANGED <<recsOutstanding, observer, server>>
  /\ subject' = NULL
  /\ UNCHANGED simple_search_loading
  /\ History

\* ai_helper_form submit handler.  prompt is the trimmed input.  The form is
\* submitted through its submit button, which set_ai_form_loading disables.
SubmitAiPrompt(prompt) ==
  /\ ~aiForm.loading
  /\ last' = "submit_ai_prompt"
  /\ IF ~connected
       THEN /\ toast' = "Connection Lost"
            /\ sent' = <<>>
            /\ UNCHANGED <<aiForm, pageVars, cards, received, header_spinner,
                           awaitingInitial>>
       ELSE IF prompt = ""
         THEN /\ aiForm' = [aiForm EXCEPT !.error = TRUE]
              /\ Quiet
              /\ UNCHANGED <<pageVars, cards, received, header_spinner,
                             awaitingInitial>>
         ELSE /\ aiForm' = [loading |-> TRUE, error |-> FALSE,
                            results |-> FALSE]
              /\ begin_ai_discovery_flow
              /\ sent' = <<Cmd("ai_prompt_req", <<prompt>>)>>
              /\ toast' = NULL
              /\ awaitingInitial' = TRUE
  /\ UNCHANGED <<connected, is_admin, personalVars, seedVars, previewVars,
                 lmOutstanding, actionOutstanding, sampleCount>>
  /\ UNCHANGED <<recsOutstanding, observer, server>>
  /\ subject' = NULL
  /\ UNCHANGED simple_search_loading
  /\ History

\* ai_helper_modal hidden.bs.modal handler
AiModalHidden ==
  /\ aiForm' = [loading |-> FALSE, error |-> FALSE, results |-> FALSE]
  /\ Quiet
  /\ last' = "ai_modal_hidden"
  /\ UNCHANGED <<connected, is_admin, personalVars, pageVars, header_spinner,
                 cards, received, seedVars, previewVars, lmOutstanding,
                 awaitingInitial, actionOutstanding, sampleCount>>
  /\ UNCHANGED <<recsOutstanding, observer, server>>
  /\ subject' = NULL
  /\ UNCHANGED simple_search_loading
  /\ History

\* socket.on('ai_prompt_ack')
AiPromptAck(hasSeeds) ==
  /\ connected
  /\ aiForm' = [aiForm EXCEPT !.loading = FALSE, !.results = TRUE]
  /\ sent' = <<>>
  /\ toast' = IF hasSeeds THEN "AI Discovery" ELSE NULL
  /\ last' = "ai_prompt_ack"
  /\ UNCHANGED <<connected, is_admin, personalVars, pageVars, header_spinner,
                 cards, received, seedVars, previewVars, lmOutstanding,
                 awaitingInitial, actionOutstanding, sampleCount>>
  /\ UNCHANGED <<recsOutstanding, observer, server>>
  /\ subject' = NULL
  /\ UNCHANGED simple_search_loading
  /\ History

\* socket.on('ai_prompt_error')
AiPromptError ==
  /\ connected
  /\ aiForm' = [aiForm EXCEPT !.loading = FALSE, !.error = TRUE]
  /\ header_spinner' = FALSE
  /\ sent' = <<>>
  /\ toast' = "AI Assistant"
  /\ last' = "ai_prompt_error"
  /\ UNCHANGED <<connected, is_admin, personalVars, pageVars, cards, received,
                 seedVars, previewVars, lmOutstanding, awaitingInitial,
                 actionOutstanding, sampleCount>>
  /\ UNCHANGED <<recsOutstanding, observer, server>>
  /\ subject' = NULL
  /\ UNCHANGED simple_search_loading
  /\ History

\* personal button click handler: startPersonalDiscovery(source)
ClickPersonal(source) ==
  /\ ~personalButtonDisabled[source]
  /\ recsOutstanding < MaxOutstanding
  /\ last' = "click_personal"
  /\ IF ~connected
       THEN /\ toast' = "Connection Lost"
            /\ sent' = <<>>
            /\ UNCHANGED <<personalVars, pageVars, cards, received, header_spinner,
                           awaitingInitial, recsOutstanding>>
       ELSE IF personalSourcesState = NoSnapshot
         THEN /\ toast' = "Personal discovery"
              /\ sent' = <<Cmd("personal_sources_poll", <<>>)>>
              /\ UNCHANGED <<personalVars, pageVars, cards, received, header_spinner,
                             awaitingInitial, recsOutstanding>>
         ELSE IF personalSourcesState[source] # "enabled"
           THEN /\ toast' = source
                /\ sent' = <<>>
                /\ UNCHANGED <<personalVars, pageVars, cards, received, header_spinner,
                               awaitingInitial, recsOutstanding>>
           ELSE /\ begin_ai_discovery_flow
                /\ setPersonalDiscoveryLoading(source, TRUE,
                                               personalSourcesState)
                /\ UNCHANGED personalSourcesState
                /\ sent' = <<Cmd("user_recs_req", <<source>>)>>
                /\ toast' = NULL
                /\ awaitingInitial' = TRUE
                /\ recsOutstanding' = recsOutstanding + 1
  /\ UNCHANGED <<connected, is_admin, seedVars, previewVars, aiForm,
                 lmOutstanding, actionOutstanding, sampleCount>>
  /\ UNCHANGED <<observer, server>>
  /\ subject' = NULL
  /\ UNCHANGED simple_search_loading
  /\ History

\* socket.on('personal_sources_state'): a null payload (NoSnapshot) is
\* stored as {}, which lists no source.
PersonalSourcesState(state) ==
  /\ connected
  /\ personalSourcesState' =
       IF state = NoSnapshot THEN [s \in Sources |-> "absent"] ELSE state
  /\ personalButtonDisabled' =
       updatePersonalButtons(personalSourcesState', personalDiscoveryState)
  /\ Quiet
  /\ last' = "personal_sources_state"
  /\ UNCHANGED <<connected, is_admin, personalDiscoveryState, personalSpinner,
                 pageVars, header_spinner, cards, received, seedVars, previewVars,
                 aiForm, lmOutstanding, awaitingInitial, actionOutstanding,
                 sampleCount>>
  /\ UNCHANGED <<recsOutstanding, observer, server>>
  /\ subject' = NULL
  /\ UNCHANGED simple_search_loading
  /\ History

\* socket.on('user_recs_ack'): a toast titled after the source.
UserRecsAck(source) ==
  /\ connected
  /\ sent' = <<>>
  /\ toast' = source
  /\ last' = "user_recs_ack"
  /\ UNCHANGED <<connected, is_admin, personalVars, pageVars, header_spinner,
                 cards, received, seedVars, previewVars, aiForm, lmOutstanding,
                 awaitingInitial, actionOutstanding, sampleCount>>
  /\ UNCHANGED <<recsOutstanding, observer, server>>
  /\ subject' = NULL
  /\ UNCHANGED simple_search_loading
  /\ History

\* Variant: the error handler asks for the availability again.
UserRecsError_repolls ==
  /\ connected
  /\ header_spinner' = FALSE
  /\ setPersonalDiscoveryLoading(NULL, FALSE, personalSourcesState)
  /\ sent' = <<Cmd("personal_sources_poll", <<>>)>>
  /\ toast' = "Personal discovery"
  /\ last' = "user_recs_error"
  /\ UNCHANGED <<connected, is_admin, personalSourcesState, pageVars, cards, received,
                 seedVars, previewVars, aiForm, lmOutstanding,
                 awaitingInitial, actionOutstanding, sampleCount>>
  /\ recsOutstanding' = 0
  /\ UNCHANGED <<observer, server>>
  /\ subject' = NULL
  /\ UNCHANGED simple_search_loading
  /\ History

\* socket.on('user_recs_error')
UserRecsError ==
  /\ connected
  /\ header_spinner' = FALSE
  /\ setPersonalDiscoveryLoading(NULL, FALSE, personalSourcesState)
  /\ sent' = <<>>
  /\ toast' = "Personal discovery"
  /\ last' = "user_recs_error"
  /\ UNCHANGED <<connected, is_admin, personalSourcesState, pageVars, cards, received,
                 seedVars, previewVars, aiForm, lmOutstanding,
                 awaitingInitial, actionOutstanding, sampleCount>>
  /\ recsOutstanding' = 0
  /\ UNCHANGED <<observer, server>>
  /\ subject' = NULL
  /\ UNCHANGED simple_search_loading
  /\ History

\* socket.on('new_toast_msg')
NewToastMsg ==
  /\ connected
  /\ sent' = <<>>
  /\ toast' = "server notice"
  /\ last' = "new_toast_msg"
  /\ UNCHANGED <<connected, is_admin, personalVars, pageVars, header_spinner,
                 cards, received, seedVars, previewVars, aiForm, lmOutstanding,
                 awaitingInitial, actionOutstanding, sampleCount>>
  /\ UNCHANGED <<recsOutstanding, observer, server>>
  /\ subject' = NULL
  /\ UNCHANGED simple_search_loading
  /\ History

\* ------------------------------------------------------------------ cards

\* Variant: the button is not disabled while the command is in flight.
add_to_lidarr_staysEnabled(card) ==
  [card EXCEPT !.loading = TRUE,
               !.text = IF card.handler = "adder" THEN "Adding..."
                                                  ELSE "Requesting...",
               !.clicks = card.clicks + 1]

\* add_to_lidarr / request_artist on a connected socket: the card's button
\* is disabled and shows the spinner text.
add_to_lidarr(card) ==
  [card EXCEPT !.disabled = TRUE,
               !.loading = TRUE,
               !.text = IF card.handler = "adder" THEN "Adding..."
                                                  ELSE "Requesting...",
               !.clicks = card.clicks + 1]

\* Add button click handler of card i: add_to_lidarr or request_artist, as
\* wired by append_artists.
ClickAdd(i) ==
  /\ i \in 1..Len(cards)
  /\ ~cards[i].disabled
  /\ actionOutstanding[cards[i].name] < MaxOutstanding
  /\ last' = "click_add"
  /\ IF connected
       THEN /\ cards' = [cards EXCEPT ![i] = add_to_lidarr(cards[i])]
            /\ sent' = <<Cmd(cards[i].handler,
                             <<encodeURIComponent(cards[i].name)>>)>>
            /\ toast' = NULL
            /\ actionOutstanding' =
                 [actionOutstanding EXCEPT ![cards[i].name] = @ + 1]
       ELSE /\ toast' = "Connection Lost"
            /\ sent' = <<>>
            /\ UNCHANGED <<cards, actionOutstanding>>
  /\ UNCHANGED <<connected, is_admin, personalVars, pageVars, header_spinner,
                 seedVars, previewVars, aiForm, lmOutstanding,
                 awaitingInitial, sampleCount>>
  /\ UNCHANGED <<recsOutstanding, observer, server>>
  /\ UNCHANGED received
  /\ subject' = NULL
  /\ UNCHANGED simple_search_loading
  /\ History

\* Variant: the Rejected case forgets to disable the button.
refreshCard_rejectedRetry(card, status) ==
  LET c == [card EXCEPT !.loading = FALSE, !.clicks = 0,
                       !.status = status, !.updated = TRUE]
  IN  CASE status \in {"Added", "Already in Lidarr"} ->
             [c EXCEPT !.led = "success", !.disabled = TRUE, !.text = status]
        [] status = "Requested" ->
             [c EXCEPT !.led = "warning", !.disabled = TRUE,
                       !.text = "Pending Approval"]
        [] status \in {"Failed to Add", "Invalid Path"} ->
             [c EXCEPT !.led = "danger", !.disabled = TRUE, !.text = status]
        [] status = "Rejected" ->
             [c EXCEPT !.led = "danger", !.disabled = FALSE, !.text = status]
        [] OTHER ->
             [c EXCEPT !.led = "info", !.disabled = FALSE,
                       !.text = DefaultText]

\* refresh_artist: the status mapping applied to one matching card.
refreshCard(card, status) ==
  LET c == [card EXCEPT !.loading = FALSE, !.clicks = 0,
                       !.status = status, !.updated = TRUE]
  IN  CASE status \in {"Added", "Already in Lidarr"} ->
             [c EXCEPT !.led = "success", !.disabled = TRUE, !.text = status]
        [] status = "Requested" ->
             [c EXCEPT !.led = "warning", !.disabled = TRUE,
                       !.text = "Pending Approval"]
        [] status \in {"Failed to Add", "Invalid Path", "Rejected"} ->
             [c EXCEPT !.led = "danger", !.disabled = TRUE, !.text = status]
        [] OTHER ->
             [c EXCEPT !.led = "info", !.disabled = FALSE,
                       !.text = DefaultText]

\* Variant: the name is not compared, every card takes the status.
refreshCards_everyCard(cs, artist) ==
  [i \in 1..Len(cs) |-> refreshCard(cs[i], artist.Status)]

\* refresh_artist: every card whose trimmed title is artist.Name.
refreshCards(cs, artist) ==
  [i \in 1..Len(cs) |->
     IF trim(cs[i].name) = artist.Name
       THEN refreshCard(cs[i], artist.Status)
       ELSE cs[i]]

\* socket.on('refresh_artist')
RefreshArtist(artist) ==
  /\ connected
  /\ cards' = refreshCards(cards, artist)
  /\ actionOutstanding' = [actionOutstanding EXCEPT ![artist.Name] = 0]
  /\ Quiet
  /\ last' = "refresh_artist"
  /\ UNCHANGED <<connected, is_admin, personalVars, pageVars, header_spinner,
                 seedVars, previewVars, aiForm, lmOutstanding,
                 awaitingInitial, sampleCount>>
  /\ observer' =
       observe(observer,
               [observer EXCEPT !.cards = refreshCards(@, artist)])
  /\ UNCHANGED <<recsOutstanding, server>>
  /\ UNCHANGED received
  /\ subject' = artist.Name
  /\ UNCHANGED simple_search_loading
  /\ History

\* ------------------------------------------------- preview, sample

\* Variant: the flag is never raised.
preview_req_noFlag(name) ==
  /\ preview_request_flag' = preview_request_flag
  /\ sent' = <<Cmd("preview_req", <<encodeURIComponent(name)>>)>>
  /\ previewTimers' =
       Append(previewTimers,
              [target |-> name, opens |-> previewCount[name] = 0])
  /\ previewCount' = [previewCount EXCEPT ![name] = @ + 1]

\* preview_req(artist_name): a request is sent and a 1500 ms timer started
\* only when preview_request_flag is down.
preview_req(name) ==
  IF ~preview_request_flag
    THEN /\ preview_request_flag' = TRUE
         /\ sent' = <<Cmd("preview_req", <<encodeURIComponent(name)>>)>>
         /\ previewTimers' =
              Append(previewTimers,
                     [target |-> name, opens |-> previewCount[name] = 0])
         /\ previewCount' = [previewCount EXCEPT ![name] = @ + 1]
    ELSE /\ sent' = <<>>
         /\ UNCHANGED previewVars

\* .get-preview-btn click handler of card i
ClickPreview(i) ==
  /\ i \in 1..Len(cards)
  /\ Len(previewTimers) < MaxTimers
  /\ preview_req(cards[i].name)
  /\ toast' = NULL
  /\ last' = "click_preview"
  /\ UNCHANGED <<connected, is_admin, personalVars, pageVars, header_spinner,
                 cards, received, seedVars, aiForm, lmOutstanding, awaitingInitial,
                 actionOutstanding, sampleCount>>
  /\ UNCHANGED <<recsOutstanding, observer, server>>
  /\ subject' = NULL
  /\ UNCHANGED simple_search_loading
  /\ History

\* The setTimeout callback of preview_req: timers of equal delay run in the
\* order they were started.  The window of a target closes when the timer
\* of the request that opened it runs.
PreviewTimerFire ==
  /\ previewTimers # <<>>
  /\ preview_request_flag' = FALSE
  /\ previewTimers' = Tail(previewTimers)
  /\ previewCount' =
       IF Head(previewTimers).opens
         THEN [previewCount EXCEPT ![Head(previewTimers).target] = 0]
         ELSE previewCount
  /\ Quiet
  /\ last' = "preview_timer"
  /\ UNCHANGED <<connected, is_admin, personalVars, pageVars, header_spinner,
                 cards, received, seedVars, aiForm, lmOutstanding, awaitingInitial,
                 actionOutstanding, sampleCount>>
  /\ UNCHANGED <<recsOutstanding, observer, server>>
  /\ subject' = NULL
  /\ UNCHANGED simple_search_loading
  /\ History

\* listenSampleReq(artist_name)
listenSampleReq(name) ==
  /\ sent' = <<Cmd("prehear_req", <<encodeURIComponent(name)>>)>>
  /\ sampleCount' = [sampleCount EXCEPT ![name] = @ + 1]

\* .listen-sample-btn click handler of card i
ClickSample(i) ==
  /\ i \in 1..Len(cards)
  /\ sampleCount[cards[i].name] < MaxOutstanding
  /\ listenSampleReq(cards[i].name)
  /\ toast' = NULL
  /\ last' = "click_sample"
  /\ UNCHANGED <<connected, is_admin, personalVars, pageVars, header_spinner,
                 cards, received, seedVars, previewVars, aiForm, lmOutstanding,
                 awaitingInitial, actionOutstanding>>
  /\ UNCHANGED <<recsOutstanding, observer, server>>
  /\ subject' = NULL
  /\ UNCHANGED simple_search_loading
  /\ History

\* 1500 ms have passed since the sample request that opened the window of
\* target name: the window closes.  No code runs.
SampleWindowExpire(name) ==
  /\ sampleCount[name] > 0
  /\ sampleCount' = [sampleCount EXCEPT ![name] = 0]
  /\ Quiet
  /\ last' = "sample_window_expired"
  /\ UNCHANGED <<connected, is_admin, personalVars, pageVars, header_spinner,
                 cards, received, seedVars, previewVars, aiForm, lmOutstanding,
                 awaitingInitial, actionOutstanding>>
  /\ UNCHANGED <<recsOutstanding, observer, server>>
  /\ subject' = NULL
  /\ UNCHANGED simple_search_loading
  /\ History

\* ----------------------------------------------------------- artist search

\* triggerSimpleSearch, from the search button or Enter in the search input,
\* neither of which reacts while disabled.  query is the trimmed input.
TriggerSimpleSearch(query) ==
  /\ ~simple_search_loading
  /\ last' = "trigger_simple_search"
  /\ toast' = NULL
  /\ IF query = ""
       THEN /\ sent' = <<>>
            /\ UNCHANGED simple_search_loading
       ELSE /\ simple_search_loading' = TRUE
            /\ sent' = <<Cmd("mb_artist_search", <<query>>)>>
  /\ UNCHANGED <<connected, is_admin, personalVars, pageVars, header_spinner,
                 cards, received, seedVars, previewVars, aiForm, lmOutstanding,
                 awaitingInitial, actionOutstanding, sampleCount>>
  /\ UNCHANGED <<recsOutstanding, observer, server>>
  /\ subject' = NULL
  /\ History

\* socket.on('simple_search_ack'): the answer to a search of this client.
SimpleSearchAck(hasSeeds) ==
  /\ connected
  /\ searchOwed = "sent"
  /\ simple_search_loading' = FALSE
  /\ aiForm' = [aiForm EXCEPT !.results = TRUE]
  /\ sent' = <<>>
  /\ toast' = IF hasSeeds THEN "MusicBrainz Search" ELSE NULL
  /\ last' = "simple_search_ack"
  /\ UNCHANGED <<connected, is_admin, personalVars, pageVars, header_spinner,
                 cards, received, seedVars, previewVars, lmOutstanding,
                 awaitingInitial, actionOutstanding, sampleCount>>
  /\ UNCHANGED <<recsOutstanding, observer, server>>
  /\ subject' = NULL
  /\ History

\* socket.on('simple_search_error'): the refusal of a search of this client.
SimpleSearchError ==
  /\ connected
  /\ searchOwed = "sent"
  /\ simple_search_loading' = FALSE
  /\ aiForm' = [aiForm EXCEPT !.error = TRUE]
  /\ header_spinner' = FALSE
  /\ sent' = <<>>
  /\ toast' = "MusicBrainz Search"
  /\ last' = "simple_search_error"
  /\ UNCHANGED <<connected, is_admin, personalVars, pageVars, cards, received,
                 seedVars, previewVars, lmOutstanding, awaitingInitial,
                 actionOutstanding, sampleCount>>
  /\ UNCHANGED <<recsOutstanding, observer, server>>
  /\ subject' = NULL
  /\ History

\* ------------------------------------- Session Orchestrator, Broadcast Hub

\* Every variable of the client: the server's steps leave them alone.
clientVars ==
  <<connected, is_admin, personalVars, pageVars, header_spinner, cards,
    seedVars, previewVars, aiForm, sent, toast, lmOutstanding,
    awaitingInitial, actionOutstanding, sampleCount, terminalSeen,
    recsOutstanding, subject, received, attempt, lastControl, aiOutstanding,
    simple_search_loading, searchOwed, observer>>

BoolStr(b) == IF b THEN "true" ELSE "false"

\* The identities of seq not yet in buffer, each once, in their order.
RECURSIVE coalesce(_, _)
coalesce(buffer, seq) ==
  IF seq = <<>> THEN <<>>
  ELSE IF \E i \in 1..Len(buffer) : buffer[i] = Head(seq)
    THEN coalesce(buffer, Tail(seq))
    ELSE <<Head(seq)>> \o coalesce(Append(buffer, Head(seq)), Tail(seq))

\* Variant: the rejection is broadcast to every connection.
start_broadcastsError(srv, c, seeds, origin) ==
  IF srv.state # "Idle"
    THEN [srv EXCEPT !.outbox =
            publish(srv.outbox, Event("action_error", <<"AlreadyRunning">>))]
    ELSE [srv EXCEPT !.state = "Running",
                     !.pagination = NoPagination,
                     !.outbox =
                       publish(srv.outbox,
                               Event("session_state_update", <<"Running">>))]

\* start(seedSelection, seedOrigin): accepted from Idle only; otherwise it
\* fails with AlreadyRunning, reported to the requester only.
start(srv, c, seeds, origin) ==
  IF srv.state # "Idle"
    THEN [srv EXCEPT !.outbox =
            report(srv.outbox, c, Event("action_error", <<"AlreadyRunning">>))]
    ELSE [srv EXCEPT !.state = "Running",
                     !.pagination = NoPagination,
                     !.outbox =
                       publish(srv.outbox,
                               Event("session_state_update", <<"Running">>))]

\* The shape of a start command: an empty selection is valid only for a
\* personal or prompt origin.
validStart(seeds, origin) == seeds # <<>> \/ origin # "Catalogue"

\* forward(c, start(seeds, origin)) of a well-formed command.
ServerStart(c, seeds, origin) ==
  /\ validStart(seeds, origin)
  /\ server' = [start(server, c, seeds, origin) EXCEPT !.requester = c]
  /\ last' = "server_start"
  /\ UNCHANGED clientVars

\* forward(c, start(seeds, origin)) of a malformed command: ValidationError,
\* before the command reaches the Orchestrator.
ServerStartInvalid(c, seeds, origin) ==
  /\ ~validStart(seeds, origin)
  /\ server' =
       [server EXCEPT !.requester = c,
                      !.outbox =
                        report(server.outbox, c,
                               Event("action_error", <<"ValidationError">>))]
  /\ last' = "server_validation_error"
  /\ UNCHANGED clientVars

\* forward(c, stop()): Running --stop()--> Stopping; nothing to stop
\* otherwise.
stop(srv) ==
  IF srv.state = "Running"
    THEN [srv EXCEPT !.state = "Stopping",
                     !.outbox =
                       publish(srv.outbox,
                               Event("session_state_update", <<"Stopping">>))]
    ELSE srv

ServerStop(c) ==
  /\ server' = [stop(server) EXCEPT !.requester = c]
  /\ last' = "server_stop"
  /\ UNCHANGED clientVars

\* Stopping --(drained)--> Idle: session_cleared is emitted.
ServerDrained ==
  /\ server.state = "Stopping"
  /\ server' = [server EXCEPT !.state = "Idle",
                              !.resultBuffer = <<>>,
                              !.pagination = NoPagination,
                              !.requester = NULL,
                              !.outbox =
                                publish(server.outbox,
                                        Event("session_cleared", <<>>))]
  /\ last' = "server_drained"
  /\ UNCHANGED clientVars

\* A batch of ExpandSeeds arrives while Running (initial pass or load more):
\* deduplicated against resultBuffer by identity, appended and broadcast.
ServerBatch(batch) ==
  /\ server.state = "Running"
  /\ ~server.pagination.initialLoadComplete
       \/ server.pagination.loadMorePending
  /\ LET new == coalesce(server.resultBuffer, batch)
     IN  server' = [server EXCEPT !.resultBuffer = @ \o new,
                                  !.requester = NULL,
                                  !.outbox =
                                    publish(server.outbox,
                                            Event("candidates_appended", new))]
  /\ last' = "server_batch"
  /\ UNCHANGED clientVars

\* All seed batches of the initial pass are complete.
ServerInitialLoadComplete(hasMore) ==
  /\ server.state = "Running"
  /\ ~server.pagination.initialLoadComplete
  /\ server' = [server EXCEPT !.pagination.initialLoadComplete = TRUE,
                              !.pagination.hasMore = hasMore,
                              !.requester = NULL,
                              !.outbox =
                                publish(server.outbox,
                                        Event("initial_load_complete",
                                              <<BoolStr(hasMore)>>))]
  /\ last' = "server_initial_load_complete"
  /\ UNCHANGED clientVars

\* forward(c, loadMore()): Running --loadMore()--> Running, rejected with
\* NotReady before initial_load_complete and with AlreadyPending while one
\* is outstanding.
loadMore(srv, c) ==
  IF ~srv.pagination.initialLoadComplete
    THEN [srv EXCEPT !.outbox =
            report(srv.outbox, c, Event("action_error", <<"NotReady">>))]
    ELSE IF srv.pagination.loadMorePending
      THEN [srv EXCEPT !.outbox =
              report(srv.outbox, c, Event("action_error", <<"AlreadyPending">>))]
      ELSE [srv EXCEPT !.pagination.loadMorePending = TRUE]

ServerLoadMore(c) ==
  /\ server.state = "Running"
  /\ server' = [loadMore(server, c) EXCEPT !.requester = c]
  /\ last' = "server_load_more"
  /\ UNCHANGED clientVars

\* The outstanding load-more request completes.
ServerLoadMoreComplete(hasMore) ==
  /\ server.state = "Running"
  /\ server.pagination.loadMorePending
  /\ server' = [server EXCEPT !.pagination.loadMorePending = FALSE,
                              !.pagination.hasMore = hasMore,
                              !.requester = NULL,
                              !.outbox =
                                publish(server.outbox,
                                        Event("load_more_complete",
                                              <<BoolStr(hasMore)>>))]
  /\ last' = "server_load_more_complete"
  /\ UNCHANGED clientVars

\* --------------------------------------------------------- specifications

\* The session mirror: connection, pagination, the candidate list and every
\* handler that starts, stops or clears a session.  Batches carry artists
\* without status (the card controls are the subject of SpecCards).
Next ==
  \/ Connect
  \/ Disconnect
  \/ ClickStartStop
  \/ ClickLoadMore
  \/ \E h \in BOOLEAN : InitialLoadComplete(h)
  \/ \E h \in BOOLEAN, a \in BOOLEAN : LoadMoreComplete(h, a)
  \/ Clear
  \/ \E data \in SeqsUpTo(NewArtists, MaxBatch) : MoreArtistsLoaded(data)
  \/ \E prompt \in {"", "jazz"} : SubmitAiPrompt(prompt)
  \/ AiModalHidden
  \/ AiPromptError
  \/ \E source \in Sources : ClickPersonal(source)
  \/ \E state \in Snapshots \cup {NoSnapshot} : PersonalSourcesState(state)
  \/ UserRecsError

Spec == Init /\ [][Next]_vars

\* The candidate cards: batches and status updates with every status, the
\* add/request control of each card, the role, and the handlers that remove
\* the cards.
NextCards ==
  \/ Connect
  \/ Disconnect
  \/ Clear
  \/ \E admin \in BOOLEAN : UserInfo(admin)
  \/ \E data \in SeqsUpTo(Artists, MaxBatch) : MoreArtistsLoaded(data)
  \/ \E artist \in Artists : RefreshArtist(artist)
  \/ \E i \in 1..MaxCards : ClickAdd(i)

SpecCards == Init /\ [][NextCards]_vars

\* The side actions of a card (preview, sample) and the cool-down timer.
NextSide ==
  \/ Connect
  \/ Disconnect
  \/ Clear
  \/ \E data \in SeqsUpTo(NewArtists, MaxBatch) : MoreArtistsLoaded(data)
  \/ \E i \in 1..MaxCards : ClickPreview(i)
  \/ PreviewTimerFire
  \/ \E i \in 1..MaxCards : ClickSample(i)
  \/ \E name \in Names : SampleWindowExpire(name)

SpecSide == Init /\ [][NextSide]_vars

\* The same, with the event loop running every setTimeout callback that is
\* due: a pending cool-down timer is not left waiting for ever.
SpecSideFair == SpecSide /\ WF_vars(PreviewTimerFire)

\* The AI helper: the form, its modal and the answers to a prompt.
NextAi ==
  \/ Connect
  \/ Disconnect
  \/ \E data \in SeqsUpTo(NewArtists, MaxBatch) : MoreArtistsLoaded(data)
  \/ \E h \in BOOLEAN : InitialLoadComplete(h)
  \/ \E prompt \in {"", "jazz"} : SubmitAiPrompt(prompt)
  \/ AiModalHidden
  \/ \E hasSeeds \in BOOLEAN : AiPromptAck(hasSeeds)
  \/ AiPromptError

SpecAi == Init /\ [][NextAi]_vars

\* The artist search: its controls and the answers, with the events that
\* fill and empty the list.
NextSearch ==
  \/ Connect
  \/ Disconnect
  \/ Clear
  \/ \E data \in SeqsUpTo(NewArtists, MaxBatch) : MoreArtistsLoaded(data)
  \/ \E query \in {"", "abba"} : TriggerSimpleSearch(query)
  \/ \E hasSeeds \in BOOLEAN : SimpleSearchAck(hasSeeds)
  \/ SimpleSearchError

SpecSearch == Init /\ [][NextSearch]_vars

\* The running indicator and the seed selection.
NextSeeds ==
  \/ Connect
  \/ Disconnect
  \/ ClickStartStop
  \/ ClickGetArtists
  \/ \E i \in 1..MaxSeeds : ToggleSeed(i)
  \/ ToggleSelectAll
  \/ \E response \in SidebarResponses : LidarrSidebarUpdate(response)
  \/ SidebarOpened

SpecSeeds == Init /\ [][NextSeeds]_vars

\* The server of spec.md: one session, two connections.
NextServer ==
  \/ \E c \in Conns, seeds \in {<<>>, <<"Abba">>}, origin \in SeedOrigins :
       ServerStart(c, seeds, origin)
  \/ \E c \in Conns, seeds \in {<<>>, <<"Abba">>}, origin \in SeedOrigins :
       ServerStartInvalid(c, seeds, origin)
  \/ \E c \in Conns : ServerStop(c)
  \/ ServerDrained
  \/ \E batch \in SeqsUpTo(Names, MaxBatch) : ServerBatch(batch)
  \/ \E h \in BOOLEAN : ServerInitialLoadComplete(h)
  \/ \E c \in Conns : ServerLoadMore(c)
  \/ \E h \in BOOLEAN : ServerLoadMoreComplete(h)

SpecServer == Init /\ [][NextServer]_vars


\* Two clients of one session: this one, whose user clicks, and the
\* observer, which only processes the same server events.
NextSync ==
  \/ Connect
  \/ ClickStartStop
  \/ ClickLoadMore
  \/ \E i \in 1..MaxCards : ClickAdd(i)
  \/ \E h \in BOOLEAN : InitialLoadComplete(h)
  \/ \E h \in BOOLEAN, a \in BOOLEAN : LoadMoreComplete(h, a)
  \/ Clear
  \/ \E data \in SeqsUpTo(NewArtists, MaxBatch) : MoreArtistsLoaded(data)
  \/ \E artist \in Artists : RefreshArtist(artist)

SpecSync == InitSync /\ [][NextSync]_vars

\* The personal sources: the availability snapshot, its polls, personal
\* discovery, and the clicks and events that start, end or clear a session.
NextPersonal ==
  \/ Connect
  \/ Disconnect
  \/ SidebarOpened
  \/ \E source \in Sources : ClickPersonal(source)
  \/ \E state \in Snapshots \cup {NoSnapshot} : PersonalSourcesState(state)
  \/ \E source \in Sources : UserRecsAck(source)
  \/ UserRecsError
  \/ \E h \in BOOLEAN : InitialLoadComplete(h)
  \/ Clear
  \/ ClickStartStop
  \/ NewToastMsg

SpecPersonal == Init /\ [][NextPersonal]_vars

\* ------------------------------------------------------------------ claims

LoadMoreCmd == <<Cmd("load_more_artists", <<>>)>>

\* C1: load_more_artists is emitted only from a state where
\* initialLoadComplete and the last reported hasMore are true and
\* loadMorePending is false; none is emitted between a session start or a
\* clear and the next initial_load_complete.
C1_LoadMoreOnlyWhenReady ==
  [][(last' = "click_load_more" /\ sent' = LoadMoreCmd)
       => /\ initialLoadComplete
          /\ initialLoadHasMore
          /\ ~loadMorePending
          /\ ~awaitingInitial]_vars

\* C1 witness: a load-more command has just been emitted, with cards shown.
C1_Witness ==
  /\ last = "click_load_more"
  /\ sent = LoadMoreCmd
  /\ loadMorePending
  /\ cards # <<>>

\* C2: at most one load-more request of this client is outstanding at any
\* time.
C2_AtMostOneLoadMoreOutstanding == lmOutstanding <= 1

\* C3: every displayed candidate whose status is Failed to Add can be
\* retried: its add/request control accepts a click.
C3_FailedIsRetryable ==
  \A i \in 1..Len(cards) :
    cards[i].text = "Failed to Add" => ~cards[i].disabled

AddCmds(n) ==
  {<<Cmd("adder", <<encodeURIComponent(n)>>)>>,
   <<Cmd("request_artist", <<encodeURIComponent(n)>>)>>}

\* Every identity is displayed at most once, as the server's coalescing of
\* duplicates provides.  Cards leave the list only all together, so a list
\* without duplicates never held one since it was last empty.
NoDuplicates ==
  \A i, j \in 1..Len(cards) : cards[i].name = cards[j].name => i = j

C5_OneCommandPerIdentity ==
  [][\A n \in Names :
       (NoDuplicates /\ last' = "click_add" /\ sent' \in AddCmds(n))
         => actionOutstanding[n] = 0]_vars

\* C5 as amended: between the command emitted from a card and the next
\* refresh_artist for its identity, no second command is emitted from that
\* same card.
C5_OneCommandPerCard ==
  \A i \in 1..Len(cards) : cards[i].clicks <= 1

\* C5 witness: a card whose command is in flight, its control disabled.
C5_Witness ==
  \E i \in 1..Len(cards) :
    /\ cards[i].clicks = 1
    /\ cards[i].disabled
    /\ last = "click_add"

\* C6: inside the cool-down window opened by a preview_req for a target, no
\* second preview_req is emitted for that target.
C6_PreviewDebounced ==
  \A n \in Names : previewCount[n] <= 1

\* C6 witness: a click on preview inside the window was suppressed.
C6_Witness ==
  /\ last = "click_preview"
  /\ sent = <<>>
  /\ preview_request_flag
  /\ \E n \in Names : previewCount[n] = 1

\* C7: inside the cool-down window opened by a prehear_req for a target, no
\* second prehear_req is emitted for that target.
C7_SampleDebounced ==
  \A n \in Names : sampleCount[n] <= 1

\* The mirror as Init has it: no card, the pagination flags down, no
\* snapshot, no personal discovery in flight, the running indicator Idle.
MirrorIsInitial ==
  /\ cards = <<>>
  /\ ~initialLoadComplete
  /\ ~initialLoadHasMore
  /\ ~loadMorePending
  /\ personalSourcesState = NoSnapshot
  /\ ~personalDiscoveryState.inFlight
  /\ start_stop_button = START_LABEL
  /\ ~lidarr_get_artists_disabled
  /\ ~lidarr_select_all.disabled
  /\ \A i \in 1..Len(checkboxes) : ~checkboxes[i].disabled

\* C8: when connect follows disconnect, the whole mirror is back at its
\* initial value right after it.
C8_ReconnectResetsMirror ==
  [][(last = "disconnect" /\ last' = "connect") => MirrorIsInitial']_vars

\* C9: right after clear, no candidate is displayed, the three pagination
\* flags are false and the load-more control is hidden.
C9_ClearDiscardsList ==
  last = "clear"
    => /\ cards = <<>>
       /\ ~initialLoadComplete
       /\ ~initialLoadHasMore
       /\ ~loadMorePending
       /\ load_more_button.hidden

\* C9 witness: clear was processed while a load-more request of this client
\* was outstanding and the header spinner it raised still shown.
C9_Witness ==
  /\ last = "clear"
  /\ lmOutstanding = 1
  /\ header_spinner

\* C10: while the running indicator shows Running, every seed checkbox, the
\* select-all checkbox and the fetch-artists control are disabled.
C10_SeedsLockedWhileRunning ==
  start_stop_button = STOP_LABEL
    => /\ \A i \in 1..Len(checkboxes) : checkboxes[i].disabled
       /\ lidarr_select_all.disabled
       /\ lidarr_get_artists_disabled

\* C10 witness: a lidarr_sidebar_update received while Running has built
\* seed checkboxes.
C10_Witness ==
  /\ last = "lidarr_sidebar_update"
  /\ start_stop_button = STOP_LABEL
  /\ checkboxes # <<>>

\* C11: the running indicator is derived from the server's reports only: a
\* click on the start/stop control alone leaves it as the server last
\* reported it.
C11_IndicatorFollowsServer ==
  [][last' = "click_start_stop" => start_stop_button' = start_stop_button]_vars

AlreadyRunning == Event("action_error", <<"AlreadyRunning">>)

StopCmd == <<Cmd("stop_req", <<>>)>>

\* C13: a batch that reaches the client after it issued stop_req is not
\* added to the displayed list (checked on the batch that is the first event
\* processed after the click that emitted stop_req).
C13_NoBatchAfterStop ==
  [][(last = "click_start_stop" /\ sent = StopCmd
        /\ last' = "more_artists_loaded")
       => cards' = cards]_vars

\* C14: a load_more_complete that answers a load-more request issued before
\* a later clear or session start (the request is still outstanding while
\* the client waits for the initial load of the current session) changes
\* neither hasMore nor loadMorePending nor the load-more control.
C14_ObsoleteLoadMoreDropped ==
  [][(awaitingInitial /\ lmOutstanding > 0
        /\ last' = "load_more_complete" /\ lmOutstanding' < lmOutstanding)
       => UNCHANGED <<initialLoadHasMore, loadMorePending,
                      load_more_button>>]_vars

MirrorView(cs, ilc, hasMore, pending) ==
  [cards |-> [i \in 1..Len(cs) |->
                [name |-> cs[i].name, disabled |-> cs[i].disabled,
                 led |-> cs[i].led]],
   initialLoadComplete |-> ilc,
   initialLoadHasMore |-> hasMore,
   loadMorePending |-> pending]

\* C16: two clients that processed the same server events show the same
\* candidates, control states and pagination flags, whatever one of them
\* clicked in between.
C16_ClientsInSync ==
  MirrorView(cards, initialLoadComplete, initialLoadHasMore, loadMorePending)
    = MirrorView(observer.cards, observer.initialLoadComplete,
                 observer.initialLoadHasMore, observer.loadMorePending)

PollCmd == Cmd("personal_sources_poll", <<>>)

\* C18: personal_sources_poll is emitted only by the connect handler, by the
\* opening of the sidebar and by a personal-discovery attempt made while no
\* snapshot is held; the snapshot is written only by personal_sources_state
\* and reset only by disconnect.
C18_SnapshotPolledOnly ==
  [][/\ (\E k \in 1..Len(sent') : sent'[k] = PollCmd)
          => \/ last' \in {"connect", "sidebar_opened"}
             \/ last' = "click_personal" /\ personalSourcesState = NoSnapshot
     /\ personalSourcesState' # personalSourcesState
          => \/ last' = "personal_sources_state"
             \/ last' = "disconnect" /\ personalSourcesState' = NoSnapshot]_vars

\* C18 witness: the sidebar was opened, and polled, while a snapshot was
\* held and a personal discovery was in flight.
C18_Witness ==
  /\ last = "sidebar_opened"
  /\ \E k \in 1..Len(sent) : sent[k] = PollCmd
  /\ personalSourcesState # NoSnapshot
  /\ personalDiscoveryState.inFlight

\* C19: user_recs_req is emitted only on a connected socket, with a snapshot
\* held that marks the chosen source enabled, and with no personal discovery
\* in flight; so none is emitted while one is outstanding, that is since an
\* earlier one and before the next initial_load_complete, user_recs_error or
\* disconnect.
C19_PersonalStartGuarded ==
  [][\A source \in Sources :
       (last' = "click_personal"
          /\ sent' = <<Cmd("user_recs_req", <<source>>)>>)
         => /\ connected
            /\ personalSourcesState # NoSnapshot
            /\ personalSourcesState[source] = "enabled"
            /\ ~personalDiscoveryState.inFlight
            /\ recsOutstanding = 0]_vars

\* C19 witness: a personal discovery was started while the other source was
\* enabled too; its button is disabled because of the discovery in flight.
C19_Witness ==
  /\ last = "click_personal"
  /\ recsOutstanding = 1
  /\ personalDiscoveryState.inFlight
  /\ \E source \in Sources :
       /\ sent = <<Cmd("user_recs_req", <<source>>)>>
       /\ \A other \in Sources :
            /\ personalSourcesState[other] = "enabled"
            /\ personalButtonDisabled[other]

\* The handlers of the user actions that issue a command.
CommandClicks ==
  {"click_start_stop", "click_load_more", "click_add", "click_preview",
   "click_sample", "submit_ai_prompt", "click_personal"}

\* C20: a command-issuing user action performed while the connection is
\* lost shows a notice and emits no command.
C20_NoSilentDrop ==
  [][(~connected /\ last' \in CommandClicks)
       => (sent' = <<>> /\ toast' # NULL)]_vars

\* C21: the displayed list never holds two candidates with the same
\* identity.
C21_NoDuplicateCandidates ==
  \A i, j \in 1..Len(cards) : cards[i].name = cards[j].name => i = j

\* C22: the displayed list is the concatenation, in delivery order and in
\* the order inside each batch, of the batches processed since the list was
\* last cleared.
C22_InsertionOrder ==
  [i \in 1..Len(cards) |-> cards[i].name] = received

\* C22 witness: after the initial load the candidates delivered in the
\* order AC DC, Abba are shown in that order.
C22_Witness ==
  /\ last = "more_artists_loaded"
  /\ received = <<"AC DC", "Abba">>
  /\ Len(cards) = 2
  /\ cards[1].name = "AC DC"
  /\ initialLoadComplete
  /\ ~load_more_button.hidden

\* C23: the load-more control is visible only when initialLoadComplete and
\* initialLoadHasMore are both true, and loadMorePending implies both flags
\* and a control that is visible and disabled.
C23_PaginationInvariant ==
  /\ ~load_more_button.hidden => initialLoadComplete /\ initialLoadHasMore
  /\ loadMorePending =>
       /\ initialLoadComplete
       /\ initialLoadHasMore
       /\ ~load_more_button.hidden
       /\ load_more_button.disabled

\* C23 witness: a batch was appended while a load-more request was pending,
\* so append_artists rebuilt the control with the request still open.
C23_Witness ==
  /\ last = "more_artists_loaded"
  /\ loadMorePending
  /\ cards # <<>>
  /\ ~load_more_button.hidden
  /\ load_more_button.disabled

\* C24: after initial_load_complete{hasMore: h} loadMorePending is false and
\* the load-more control is visible and enabled exactly when h; after
\* load_more_complete{hasMore: h} the same holds when the initial load is
\* complete, and the control is hidden when it is not.
C24_CompletionSetsControl ==
  [][\A h \in BOOLEAN :
       /\ InitialLoadComplete(h) =>
            /\ ~loadMorePending'
            /\ (~load_more_button'.hidden /\ ~load_more_button'.disabled) <=> h
       /\ (\E answers \in BOOLEAN : LoadMoreComplete(h, answers)) =>
            /\ ~loadMorePending'
            /\ IF initialLoadComplete'
                 THEN (~load_more_button'.hidden
                       /\ ~load_more_button'.disabled) <=> h
                 ELSE load_more_button'.hidden]_vars

\* C24 witness: load_more_complete{hasMore: true} answered a request of this
\* client after the initial load, and the control is back, enabled.
C24_Witness ==
  /\ last = "load_more_complete"
  /\ initialLoadComplete
  /\ initialLoadHasMore
  /\ ~loadMorePending
  /\ ~load_more_button.hidden
  /\ ~load_more_button.disabled
  /\ cards # <<>>

\* C25: preview_request_flag is true exactly when one cool-down timer is
\* pending, there is never more than one pending timer, and once the flag is
\* up it comes down again, the timer being run when it is due.
C25_CoolDownBookkeeping ==
  /\ [](preview_request_flag <=> Len(previewTimers) = 1)
  /\ [](Len(previewTimers) <= 1)
  /\ (preview_request_flag ~> ~preview_request_flag)

\* C25 witness: the timer of an accepted preview request has run and the
\* flag is down again, on a card that is still shown.
C25_Witness ==
  /\ last = "preview_timer"
  /\ ~preview_request_flag
  /\ previewTimers = <<>>
  /\ cards # <<>>

\* C26: a preview asked for a target other than the one whose request opened
\* the cool-down window is still sent inside that window.
C26_OtherTargetStillPreviewed ==
  [][\A i \in 1..Len(cards) :
       (/\ ClickPreview(i)
        /\ previewTimers # <<>>
        /\ \A t \in 1..Len(previewTimers) :
             previewTimers[t].target # cards[i].name)
       => sent' = <<Cmd("preview_req",
                        <<encodeURIComponent(cards[i].name)>>)>>]_vars

\* C27: personalDiscoveryState.inFlight is true exactly when
\* personalDiscoveryState.source is non-null; while it is true both personal
\* buttons are disabled and exactly the spinner of the active source is
\* shown; while it is false no personal spinner is shown.
C27_InFlightInvariant ==
  /\ personalDiscoveryState.inFlight <=> personalDiscoveryState.source # NULL
  /\ personalDiscoveryState.inFlight =>
       /\ \A s \in Sources : personalButtonDisabled[s]
       /\ \A s \in Sources :
            personalSpinner[s] <=> s = personalDiscoveryState.source
  /\ ~personalDiscoveryState.inFlight =>
       \A s \in Sources : ~personalSpinner[s]

\* C27 witness: a discovery from listenbrainz was started by a click and is
\* in flight, the other source being enabled in the snapshot too.
C27_Witness ==
  /\ last = "click_personal"
  /\ personalDiscoveryState = [inFlight |-> TRUE, source |-> "listenbrainz"]
  /\ personalSourcesState # NoSnapshot
  /\ personalSourcesState["lastfm"] = "enabled"
  /\ personalSpinner["listenbrainz"]

\* C28: once the client has processed 'clear' or has issued stop_req, no
\* personal discovery is marked in flight and the button of every enabled
\* source can be used.
C28_SessionEndReleasesPersonal ==
  (\/ last = "clear"
   \/ last = "click_start_stop" /\ sent = StopCmd)
  => /\ ~personalDiscoveryState.inFlight
     /\ personalSourcesState # NoSnapshot =>
          \A s \in Sources :
            personalSourcesState[s] = "enabled" => ~personalButtonDisabled[s]

\* The user actions the client rejects on its own: the action and whether
\* this step of it is a rejection without a snapshot.
RejectedLocally(noSnapshot) ==
  \/ /\ ~noSnapshot
     /\ \E prompt \in {"", "jazz"} :
          SubmitAiPrompt(prompt) /\ (~connected \/ prompt = "")
  \/ \E source \in Sources :
       /\ ClickPersonal(source)
       /\ \/ ~connected
          \/ personalSourcesState = NoSnapshot
          \/ personalSourcesState[source] # "enabled"
       /\ noSnapshot <=> (connected /\ personalSourcesState = NoSnapshot)
  \/ /\ ~noSnapshot
     /\ \E i \in 1..Len(cards) : ClickAdd(i) /\ ~connected

C30_RefusedStartKeepsMirror ==
  (last \in {"ai_prompt_error", "user_recs_error"} /\ attempt.made)
  => /\ cards = attempt.cards
     /\ initialLoadComplete = attempt.initialLoadComplete
     /\ initialLoadHasMore = attempt.initialLoadHasMore
     /\ loadMorePending = attempt.loadMorePending

\* C31: a click on a candidate's action control emits exactly one command,
\* adder when the role last reported by user_info is admin and
\* request_artist otherwise, whenever the card was appended.
C31_CommandMatchesRole ==
  [][\A i \in 1..Len(cards) :
       (ClickAdd(i) /\ connected) =>
         sent' = <<Cmd(IF is_admin THEN "adder" ELSE "request_artist",
                       <<encodeURIComponent(cards[i].name)>>)>>]_vars

\* The seeds checked in the sidebar, read off the checkboxes one by one.
CheckedSeeds(boxes) ==
  LET idx == {i \in 1..Len(boxes) : boxes[i].checked}
      RECURSIVE pick(_, _)
      pick(k, acc) ==
        IF k > Len(boxes) THEN acc
        ELSE pick(k + 1, IF k \in idx THEN Append(acc, boxes[k].value)
                                      ELSE acc)
  IN  pick(1, <<>>)

\* C32: a click on the start/stop control emits exactly one command and
\* flips the running indicator, start_req with exactly the seeds checked at
\* the click when the indicator showed Idle and stop_req when it showed
\* Running; two clicks with no lidarr_sidebar_update between them emit
\* different commands.
C32_StartStopAlternates ==
  [][ClickStartStop =>
       /\ Len(sent') = 1
       /\ IF start_stop_button = START_LABEL
            THEN /\ sent' = <<Cmd("start_req", CheckedSeeds(checkboxes))>>
                 /\ start_stop_button' = STOP_LABEL
            ELSE /\ sent' = <<Cmd("stop_req", <<>>)>>
                 /\ start_stop_button' = START_LABEL
       /\ lastControl # NULL => sent'[1].cmd # lastControl]_vars

\* C32 witness: with a seed checked in the sidebar, a start click was
\* followed by a stop click, and the indicator shows Idle again.
C32_Witness ==
  /\ last = "click_start_stop"
  /\ lastControl = "stop_req"
  /\ sent = <<Cmd("stop_req", <<>>)>>
  /\ start_stop_button = START_LABEL
  /\ \E i \in 1..Len(checkboxes) : checkboxes[i].checked

\* C33: no ai_prompt_req is emitted while an earlier one has been answered
\* by neither ai_prompt_ack nor ai_prompt_error, however submissions
\* interleave with the closing and reopening of the AI helper modal.
C33_OnePromptOutstanding ==
  [][(\E prompt \in {"", "jazz"} :
        SubmitAiPrompt(prompt) /\ sent' = <<Cmd("ai_prompt_req", <<prompt>>)>>)
     => ~aiOutstanding]_vars

\* C34: an emitted mb_artist_search leaves the search button and input
\* disabled, none is emitted while an earlier one has had neither
\* simple_search_ack nor simple_search_error, and the controls do not stay
\* disabled when the connection was lost before the answer: they are never
\* disabled with the answer lost.
C34_OneSearchOutstanding ==
  /\ [][\A query \in {"", "abba"} :
          (TriggerSimpleSearch(query) /\ sent' # <<>>) =>
            /\ sent' = <<Cmd("mb_artist_search", <<query>>)>>
            /\ simple_search_loading'
            /\ searchOwed = "none"]_vars
  /\ [](~(simple_search_loading /\ searchOwed = "lost"))

====
